---- MODULE Spec2Model ----
(***************************************************************************)
(* Model of opensauce/snack.py: F0 / formant estimation through the Snack  *)
(* Sound Toolkit.  One request (snack_pitch or snack_formants) is followed *)
(* from the dispatch on the calling method, through one of the three       *)
(* transports (exe, python, tcl) and the files they write, read and        *)
(* remove, to the NaN padding of the raw vectors.                          *)
(*                                                                         *)
(* Numbers are modelled as records so that NaN is a value of its own.      *)
(* frame_shift and window_size are the documented integer milliseconds;    *)
(* for integers below 2^53 the double quotient window_size / frame_shift   *)
(* has the same floor of its half as the exact quotient, so the quotient   *)
(* is kept as an exact fraction.                                           *)
(***************************************************************************)
EXTENDS Integers, Sequences, FiniteSets, TLC

\* ---------------------------------------------------------------- bounds
MaxShift == 2
MaxWin == 5
MaxDataLen == 6
MaxFrames == 3
MaxFrameId == 2
MaxUnitWin == 25
MaxUnitShift == 3

\* ---------------------------------------------------------------- values
NaN == [nan |-> TRUE, val |-> 0]
Num(v) == [nan |-> FALSE, val |-> v]

sformant_names == <<"sF1", "sF2", "sF3", "sF4", "sB1", "sB2", "sB3", "sB4">>
valid_snack_methods_any == {"exe", "python", "tcl", "other"}
valid_snack_methods == {"exe", "python", "tcl"}

NameSet == {sformant_names[i] : i \in 1..Len(sformant_names)}
Kinds == {"pitch", "formants"}
Methods == valid_snack_methods \cup {"other"}
Platforms == {"win32", "cygwin", "linux"}
\* state of the external toolkit: usable, the binary / shell / tkinter
\* cannot be found, or the snack package cannot be loaded by the interpreter
Toolkits == {"ok", "no_binary", "no_snack"}

FrameShifts == 1..MaxShift
\* besides the small ranges, the default window of 25 ms and a data length
\* of 20 points
WindowSizes == (1..MaxWin) \cup {25}
DataLens == (0..MaxDataLen) \cup {20}

\* ------------------------------------------------------------ file system
TclFile_shared(k) == "tclforsnackpitch.tcl"
TclFile(k) == IF k = "pitch" THEN "tclforsnackpitch.tcl" ELSE "tclforsnackformant.tcl"
ResultFile(k) == IF k = "pitch" THEN "stem.f0" ELSE "stem.frm"
FileNames == {TclFile(k) : k \in Kinds} \cup {ResultFile(k) : k \in Kinds}

NoFile == [exists |-> FALSE, garbage |-> FALSE, cols |-> 0, rows |-> <<>>]
ScriptText == [exists |-> TRUE, garbage |-> FALSE, cols |-> 0, rows |-> <<>>]
Table(c, rs) == [exists |-> TRUE, garbage |-> FALSE, cols |-> c, rows |-> rs]
Garbage == [exists |-> TRUE, garbage |-> TRUE, cols |-> 0, rows |-> <<>>]

IsFile_always(fs, f) == TRUE
IsFile(fs, f) == fs[f].exists
WriteFile(fs, f, c) == [fs EXCEPT ![f] = c]
RemoveFile_noop(fs, f) == fs
RemoveFile(fs, f) == [fs EXCEPT ![f] = NoFile]

\* ------------------------------------------- what the toolkit can produce
ExpectedCols(k) == IF k = "pitch" THEN 4 ELSE Len(sformant_names)
ColChoices(k) == {ExpectedCols(k) - 1, ExpectedCols(k)}
F0Bases == {0, 100}

\* one frame of "s pitch": F0, voicing and two further values
PitchRow(c, base, i, v) ==
    [j \in 1..c |-> IF j = 1 THEN Num(base + 5 * (i - 1))
                    ELSE IF j = 2 THEN Num(v) ELSE Num(0)]
\* one frame of "s formant": one value per channel
FormantRow(c, id) == [j \in 1..c |-> Num(10 * id + j)]

PitchTables(c) ==
    {Table(c, [i \in 1..n |-> PitchRow(c, b, i, vs[i])]) :
        <<n, b, vs>> \in {t \in (0..MaxFrames) \X F0Bases \X UNION {[1..m -> {0, 1}] : m \in 0..MaxFrames} :
                            /\ DOMAIN t[3] = 1..t[1]
                            /\ (t[1] = 0 => t[2] = 0)}}
FormantTables(c) ==
    {Table(c, [i \in 1..n |-> FormantRow(c, ids[i])]) :
        <<n, ids>> \in {t \in (0..MaxFrames) \X UNION {[1..m -> 1..MaxFrameId] : m \in 0..MaxFrames} :
                            DOMAIN t[2] = 1..t[1]}}
Tables(k, c) == IF k = "pitch" THEN PitchTables(c) ELSE FormantTables(c)

\* what a run of the toolkit may leave in the result file
ResultContents(k) == {Garbage} \cup UNION {Tables(k, c) : c \in ColChoices(k)}
\* what the toolkit returns in memory to the embedded interpreter
MemoryResults(k) == Tables(k, ExpectedCols(k))

\* ----------------------------------------------------------- numpy pieces
RECURSIVE Flatten(_)
Flatten(rs) == IF rs = <<>> THEN <<>> ELSE Head(rs) \o Flatten(Tail(rs))

\* a.reshape((-1, k)): possible when the size is a multiple of k
CanReshape(flat, k) == Len(flat) % k = 0
Reshape(flat, k) == [i \in 1..(Len(flat) \div k) |-> [j \in 1..k |-> flat[(i - 1) * k + j]]]
Column(m, j) == [i \in 1..Len(m) |-> m[i][j]]

\* np.full(n, v): a negative size is refused ("negative dimensions are not
\* allowed", ValueError)
NpFullRaises_never(n) == FALSE
NpFullRaises(n) == n < 0
NpFull_zeros(n, v) == [i \in 1..n |-> Num(0)]
NpFull(n, v) == [i \in 1..n |-> v]
Hstack_rawfirst(a, b, c) == b \o a \o c
Hstack(a, b, c) == a \o b \o c

\* window_size / frame_shift / 2 under true division, as a fraction
TrueDiv(a, b) == <<a, b>>
Halve(q) == <<q[1], 2 * q[2]>>
Floor(q) == q[1] \div q[2]
HeadLen_round(ws, fs) == (ws + fs) \div (2 * fs)
HeadLen(ws, fs) == Floor(Halve(TrueDiv(ws, fs)))
PadTailLen_nohead(dl, rawlen, headlen) == dl - rawlen
PadTailLen_clamped(dl, rawlen, headlen) == IF dl - (rawlen + headlen) < 0 THEN 0 ELSE dl - (rawlen + headlen)
PadTailLen(dl, rawlen, headlen) == dl - (rawlen + headlen)

\* ------------------------------------------------------ double arithmetic
\* window_size / frame_shift / 2 is evaluated in IEEE 754 doubles.  A
\* mantissa is a pair <<hi, lo>> standing for hi * 2^26 + lo, a double
\* [m, e] stands for m * 2^e with 2^52 <= m < 2^53.
Base == 2 ^ 26
Two52 == <<Base, 0>>
Two53 == <<2 * Base, 0>>
BigToInt(x) == x[1] * Base + x[2]
BigDbl(x) == <<2 * x[1] + (2 * x[2]) \div Base, (2 * x[2]) % Base>>
BigGeq(x, y) == x[1] > y[1] \/ (x[1] = y[1] /\ x[2] >= y[2])
BigSub(x, y) ==
    IF x[2] >= y[2] THEN <<x[1] - y[1], x[2] - y[2]>>
    ELSE <<x[1] - y[1] - 1, x[2] + Base - y[2]>>
BigInc(x) == IF x[2] + 1 = Base THEN <<x[1] + 1, 0>> ELSE <<x[1], x[2] + 1>>
BigOdd(x) == x[2] % 2 = 1

\* x shifted right by n bits
BigShr(x, n) ==
    IF n <= 0 THEN x
    ELSE IF n >= 53 THEN <<0, 0>>
    ELSE IF n >= 26 THEN <<0, x[1] \div 2 ^ (n - 26)>>
    ELSE <<x[1] \div 2 ^ n, (x[1] % 2 ^ n) * 2 ^ (26 - n) + x[2] \div 2 ^ n>>

Float(m, e) == [m |-> m, e |-> e]
\* the double of a positive integer below 2^30: exact
Log2(n) == CHOOSE k \in 0..29 : 2 ^ k <= n /\ n < 2 ^ (k + 1)
\* n * 2^(52 - k) for an n of k + 1 bits
Mantissa(n, k) ==
    IF k >= 26 THEN <<n \div 2 ^ (k - 26), (n % 2 ^ (k - 26)) * 2 ^ (52 - k)>>
    ELSE <<n * 2 ^ (26 - k), 0>>
FloatOfInt(n) == Float(Mantissa(n, Log2(n)), Log2(n) - 52)

\* one step of the long division by d: quotient bits q, remainder r
DivStep(qr, d) ==
    LET r2 == BigDbl(qr[2])
    IN IF BigGeq(r2, d)
       THEN <<BigInc(BigDbl(qr[1])), BigSub(r2, d)>>
       ELSE <<BigDbl(qr[1]), r2>>
\* 13, 26, 52 and 53 steps of it; a set constructor evaluates the steps
\* taken so far before the next ones begin
DivSteps4(qr, d) == DivStep(DivStep(DivStep(DivStep(qr, d), d), d), d)
DivSteps13(qr, d) == DivStep(DivSteps4(DivSteps4(DivSteps4(qr, d), d), d), d)
DivSteps26(qr, d) == CHOOSE res \in {DivSteps13(v, d) : v \in {DivSteps13(qr, d)}} : TRUE
DivSteps52(qr, d) == CHOOSE res \in {DivSteps26(v, d) : v \in {DivSteps26(qr, d)}} : TRUE
DivSteps53(qr, d) == CHOOSE res \in {DivStep(v, d) : v \in {DivSteps52(qr, d)}} : TRUE

RoundNearest(q, r, d) ==
    LET twice == BigDbl(r)
    IN IF twice = d THEN (IF BigOdd(q) THEN BigInc(q) ELSE q)
       ELSE IF BigGeq(twice, d) THEN BigInc(q) ELSE q

\* x / y, correctly rounded, for mantissas xm, ym and exponents xe, ye
DivOfParts(xm, xe, ym, ye) ==
    LET first == BigGeq(xm, ym)
        steps == IF first THEN DivSteps52(<<<<0, 1>>, BigSub(xm, ym)>>, ym)
                 ELSE DivSteps53(<<<<0, 0>>, xm>>, ym)
        quot == RoundNearest(steps[1], steps[2], ym)
        expo == xe - ye - (IF first THEN 52 ELSE 53)
    IN IF quot = Two53 THEN Float(Two52, expo + 1) ELSE Float(quot, expo)
\* x / y on two doubles, the operands evaluated first
FloatDiv(x, y) ==
    CHOOSE res \in {DivOfParts(a.m, a.e, b.m, b.e) : a \in {x}, b \in {y}} : TRUE

\* x / 2
FloatHalf(x) == Float(x.m, x.e - 1)
\* np.int_(np.floor(x)) for 0 <= x < 2^31
FloatFloor(x) == BigToInt(BigShr(x.m, 0 - x.e))

\* np.int_(np.floor(window_size / frame_shift / 2)) on doubles
HeadLenOfFloats(ws, fs) == FloatFloor(FloatHalf(FloatDiv(ws, fs)))
\* an argument given in milliseconds, as the integer n
Millis(n) == FloatOfInt(n)
\* the same duration given in seconds, as the literal n / 1000
Seconds(n) == FloatDiv(FloatOfInt(n), FloatOfInt(1000))

\* ------------------------------------------------------------ the values
\* a transport's return value
Unset == [tag |-> "unset", scalar |-> FALSE, F0 |-> <<>>, V |-> <<>>, est |-> <<>>]
None == [tag |-> "None", scalar |-> FALSE, F0 |-> <<>>, V |-> <<>>, est |-> <<>>]
PitchValue(f, v, sc) == [tag |-> "pitch", scalar |-> sc, F0 |-> f, V |-> v, est |-> <<>>]
FormantValue(e) == [tag |-> "formants", scalar |-> FALSE, F0 |-> <<>>, V |-> <<>>, est |-> e]

\* ------------------------------------------------------------------ state
VARIABLES
    kind,          \* "pitch": snack_pitch, "formants": snack_formants
    method,        \* the calling method argument
    platform,      \* sys.platform
    toolkit,       \* state of the external toolkit
    frame_shift, window_size, data_len,
    pc,            \* position of the request
    files,         \* the directory of the input file
    raw,           \* what the transport returned
    ch,            \* loop index of snack_formants over sformant_names
    pad_head,      \* the head pad of the last aligned vector
    out,           \* the value returned to the caller
    exc,           \* the exception that reached the caller
    raised_at,     \* position at which it was raised
    rc,            \* how the external run ended: "none" before any run
    invoked,       \* number of attempts to run the external toolkit
    u_pc,          \* position of a caller who makes the same call in two units
    u_ws, u_fs,    \* its window size and frame shift, in whole milliseconds
    u_len, u_dl,   \* its number of raw frames and its data_len
    u_ms,          \* what the call with millisecond arguments gave
    u_sec,         \* what the call with second arguments gave
    c_kind,        \* two tcl invocations on the same input file: their kinds
    c_pc,          \* the position of each
    c_files,       \* the directory of the input file they share
    c_run,         \* the kind of the script the shell of each is running
    c_rc,          \* the return code of the shell of each
    c_raw,         \* the result frames each has loaded
    c_exc          \* the exception each has raised

units == <<u_pc, u_ws, u_fs, u_len, u_dl, u_ms, u_sec>>
conc == <<c_kind, c_pc, c_files, c_run, c_rc, c_raw, c_exc>>
aside == <<units, conc>>
vars == <<kind, method, platform, toolkit, frame_shift, window_size, data_len,
          pc, files, raw, ch, pad_head, out, exc, raised_at, rc, invoked, aside>>
calls == <<rc, invoked>>
config == <<kind, method, platform, toolkit, frame_shift, window_size, data_len>>

\* no call made yet
NoCall == [head |-> 0, F0 |-> <<>>, exc |-> "unset"]
\* the caller of the two-unit comparison is not there
UnitsIdle ==
    /\ u_pc = "idle"
    /\ u_ws = 1
    /\ u_fs = 1
    /\ u_len = 0
    /\ u_dl = 0
    /\ u_ms = NoCall
    /\ u_sec = NoCall

\* the two invocations, and the files of their directory: a missing file,
\* a file opened for writing and still empty, a script, result frames; a
\* file records the kind of its content and the invocation that wrote it
Procs == {1, 2}
Other(p) == 3 - p
Absent == [exists |-> FALSE, text |-> "none", kind |-> "none", by |-> 0]
Truncated(p) == [exists |-> TRUE, text |-> "empty", kind |-> "none", by |-> p]
Script(k, p) == [exists |-> TRUE, text |-> "script", kind |-> k, by |-> p]
Frames(k, p) == [exists |-> TRUE, text |-> "frames", kind |-> k, by |-> p]

\* the two concurrent invocations are not there
ConcIdle ==
    /\ c_kind = [p \in Procs |-> "pitch"]
    /\ c_pc = [p \in Procs |-> "idle"]
    /\ c_files = [f \in FileNames |-> Absent]
    /\ c_run = [p \in Procs |-> "none"]
    /\ c_rc = [p \in Procs |-> 0]
    /\ c_raw = [p \in Procs |-> Absent]
    /\ c_exc = [p \in Procs |-> "none"]

Init ==
    /\ UnitsIdle
    /\ ConcIdle
    /\ kind \in Kinds
    /\ method \in Methods
    /\ platform \in Platforms
    /\ toolkit \in Toolkits
    /\ (method = "exe" => toolkit # "no_snack")
    /\ frame_shift \in FrameShifts
    /\ window_size \in WindowSizes
    /\ frame_shift <= window_size
    /\ data_len \in DataLens
    /\ pc = "dispatch"
    /\ files = [f \in FileNames |-> NoFile]
    /\ raw = Unset
    /\ ch = 1
    /\ pad_head = <<>>
    /\ out = Unset
    /\ exc = "none"
    /\ raised_at = "none"
    /\ rc = "none"
    /\ invoked = 0

Raise(e) ==
    /\ exc' = e
    /\ raised_at' = pc
    /\ pc' = "done"

NoRaise == UNCHANGED <<exc, raised_at>>

\* snack_raw_pitch / snack_raw_formants: choice of the transport
Dispatch ==
    /\ pc = "dispatch"
    /\ IF method \in valid_snack_methods
       THEN /\ pc' = (IF method = "exe" THEN "exe_check"
                      ELSE IF method = "python" THEN "py_import" ELSE "tcl_write")
            /\ NoRaise
       ELSE Raise("ValueError")
    /\ UNCHANGED <<aside, config, calls, files, raw, ch, pad_head, out>>

\* ------------------------------------------------------- the tcl transport
\* the script is written next to the input file
TclWrite ==
    /\ pc = "tcl_write"
    /\ files' = WriteFile(files, TclFile(kind), ScriptText)
    /\ pc' = "tcl_call"
    /\ UNCHANGED <<aside, config, calls, raw, ch, pad_head, out, exc, raised_at>>

\* one run of an external command: whether it could be started, its return
\* code and what it left in the result file (NoFile: nothing written)
Run(st, code, w) == [started |-> st, code |-> code, wrote |-> w]
NotStarted == Run(FALSE, 0, NoFile)

\* the runs of the Tcl shell on the script: the shell is not found; the
\* script stops before it opens the result file (snack cannot be loaded, the
\* sound cannot be read); it stops in the snack command after opening the
\* file; it ends with code 0 with or without a result file
TclRuns(k, tk) ==
    IF tk = "no_binary" THEN {NotStarted}
    ELSE {Run(TRUE, 1, NoFile)} \cup
         (IF tk = "ok"
          THEN {Run(TRUE, 1, Table(ExpectedCols(k), <<>>))} \cup
               {Run(TRUE, 0, c) : c \in ResultContents(k) \cup {NoFile}}
          ELSE {})

\* the runs of snack.exe
ExeRuns(k, tk) ==
    IF tk = "no_binary" THEN {NotStarted}
    ELSE {Run(TRUE, 1, NoFile), Run(TRUE, 1, Table(ExpectedCols(k), <<>>))} \cup
         {Run(TRUE, 0, c) : c \in ResultContents(k) \cup {NoFile}}

\* the directory after a run
AfterRun(fs, k, r) == IF r.wrote = NoFile THEN fs ELSE WriteFile(fs, ResultFile(k), r.wrote)
RcOf(r) == IF ~r.started THEN "nostart" ELSE IF r.code = 0 THEN "zero" ELSE "nonzero"

\* if return_code != 0
ReturnCodeFails_never(code) == FALSE
ReturnCodeFails(code) == code # 0

\* call([tcl_shell_cmd, tcl_file]) and the test of its return code
TclCall ==
    /\ pc = "tcl_call"
    /\ \E r \in TclRuns(kind, toolkit) :
          /\ rc' = RcOf(r)
          /\ invoked' = invoked + 1
          /\ IF ~r.started
             THEN /\ files' = RemoveFile(files, TclFile(kind))
                  /\ Raise("OSError")
             ELSE IF ReturnCodeFails(r.code)
             THEN /\ files' = RemoveFile(AfterRun(files, kind, r), TclFile(kind))
                  /\ Raise("OSError")
             ELSE /\ files' = AfterRun(files, kind, r)
                  /\ pc' = "tcl_load"
                  /\ NoRaise
    /\ UNCHANGED <<aside, config, raw, ch, pad_head, out>>

\* the columns the tcl transport keeps of the reshaped table
TclValue(k, m) ==
    IF k = "pitch"
    THEN PitchValue(Column(m, 1), Column(m, 2), FALSE)
    ELSE FormantValue([n \in NameSet |->
            Column(m, CHOOSE i \in 1..Len(sformant_names) : sformant_names[i] = n)])

\* np.loadtxt(...).reshape((-1, num_cols)), the columns, os.remove(result)
TclLoad ==
    /\ pc = "tcl_load"
    /\ LET f == ResultFile(kind)
           c == files[f]
           flat == Flatten(c.rows)
       IN IF IsFile(files, f)
          THEN IF c.garbage \/ ~CanReshape(flat, ExpectedCols(kind))
               THEN /\ Raise("ValueError")
                    /\ UNCHANGED <<files, raw>>
               ELSE /\ raw' = TclValue(kind, Reshape(flat, ExpectedCols(kind)))
                    /\ files' = RemoveFile(files, f)
                    /\ pc' = "tcl_cleanup"
                    /\ NoRaise
          ELSE /\ Raise("OSError")
               /\ UNCHANGED <<files, raw>>
    /\ UNCHANGED <<aside, config, calls, ch, pad_head, out>>

\* os.remove(tcl_file) and the return
TclCleanup ==
    /\ pc = "tcl_cleanup"
    /\ files' = RemoveFile(files, TclFile(kind))
    /\ pc' = "gateway_return"
    /\ UNCHANGED <<aside, config, calls, raw, ch, pad_head, out, exc, raised_at>>

\* ------------------------------------------------------- the exe transport
\* the platform test of snack_raw_pitch_exe / snack_raw_formants_exe
NotWindows_never(p) == FALSE
NotWindows(p) == p # "win32" /\ p # "cygwin"

ExeCheck ==
    /\ pc = "exe_check"
    /\ IF NotWindows(platform)
       THEN Raise("ValueError")
       ELSE /\ pc' = "exe_call"
            /\ NoRaise
    /\ UNCHANGED <<aside, config, calls, files, raw, ch, pad_head, out>>

\* call(snack_cmd) and the test of its return code
ExeCall ==
    /\ pc = "exe_call"
    /\ \E r \in ExeRuns(kind, toolkit) :
          /\ rc' = RcOf(r)
          /\ invoked' = invoked + 1
          /\ files' = AfterRun(files, kind, r)
          /\ IF ~r.started \/ ReturnCodeFails(r.code)
             THEN Raise("OSError")
             ELSE /\ pc' = "exe_load"
                  /\ NoRaise
    /\ UNCHANGED <<aside, config, raw, ch, pad_head, out>>

\* the dictionary snack_raw_formants_exe builds: one key per column read
ExeFormantValue(c) ==
    FormantValue([n \in {sformant_names[i] : i \in 1..c.cols} |->
        Column(c.rows, CHOOSE i \in 1..c.cols : sformant_names[i] = n)])

\* np.loadtxt of the result file, os.remove, and the values kept.
\* loadtxt squeezes its result: no line gives shape (0,), one line a
\* one-dimensional array.  With usecols and unpack=True an empty file either
\* cannot be unpacked into two names (ValueError) or gives two empty
\* vectors, depending on the numpy release; one line gives two scalars.
ExeLoad ==
    /\ pc = "exe_load"
    /\ LET f == ResultFile(kind)
           c == files[f]
           n == Len(c.rows)
       IN IF ~IsFile(files, f)
          THEN /\ Raise("OSError")
               /\ UNCHANGED <<files, raw>>
          ELSE IF c.garbage
          THEN /\ Raise("ValueError")
               /\ UNCHANGED <<files, raw>>
          ELSE IF kind = "pitch"
          THEN \/ /\ n = 0
                  /\ Raise("ValueError")
                  /\ UNCHANGED <<files, raw>>
               \/ /\ raw' = PitchValue(Column(c.rows, 1), Column(c.rows, 2), n = 1)
                  /\ files' = RemoveFile(files, f)
                  /\ pc' = "gateway_return"
                  /\ NoRaise
          ELSE /\ files' = RemoveFile(files, f)
               /\ IF n < 2
                  THEN /\ Raise("IndexError")
                       /\ UNCHANGED raw
                  ELSE /\ raw' = ExeFormantValue(c)
                       /\ pc' = "gateway_return"
                       /\ NoRaise
    /\ UNCHANGED <<aside, config, calls, ch, pad_head, out>>

\* ---------------------------------------------------- the python transport
\* import tkinter / Tkinter; when both fail a message is printed and the
\* name tkinter is unbound at tkinter.Tcl()
PyImport ==
    /\ pc = "py_import"
    /\ IF toolkit = "no_binary"
       THEN Raise("NameError")
       ELSE /\ pc' = "py_require"
            /\ NoRaise
    /\ UNCHANGED <<aside, config, calls, files, raw, ch, pad_head, out>>

\* tcl.eval('package require snack'): on TclError the function logs and
\* returns without a value
PyRequire ==
    /\ pc = "py_require"
    /\ invoked' = invoked + 1
    /\ IF toolkit = "no_snack"
       THEN /\ raw' = None
            /\ rc' = "nostart"
            /\ pc' = "gateway_return"
       ELSE /\ raw' = raw
            /\ rc' = rc
            /\ pc' = "py_collect"
    /\ UNCHANGED <<aside, config, files, ch, pad_head, out, exc, raised_at>>

\* the columns the python transport keeps of the frames in memory
PyValue_f0twice(k, c) ==
    IF k = "pitch"
    THEN PitchValue(Column(c.rows, 1), Column(c.rows, 1), FALSE)
    ELSE FormantValue([n \in NameSet |->
            Column(c.rows, CHOOSE i \in 1..Len(sformant_names) : sformant_names[i] = n)])
PyValue(k, c) ==
    IF k = "pitch"
    THEN PitchValue(Column(c.rows, 1), Column(c.rows, 2), FALSE)
    ELSE FormantValue([n \in NameSet |->
            Column(c.rows, CHOOSE i \in 1..Len(sformant_names) : sformant_names[i] = n)])

\* the snack commands and the collection of their result frame by frame.
\* The result of the snack command is not checked: a result string that
\* starts with ERROR: reaches the conversion of its first word to a float.
PyCollect ==
    /\ pc = "py_collect"
    /\ \/ \* a command fails in the interpreter: TclError
          /\ rc' = "nonzero"
          /\ Raise("TclError")
          /\ UNCHANGED raw
       \/ \* the result string is a message, not frames
          /\ rc' = "zero"
          /\ Raise("ValueError")
          /\ UNCHANGED raw
       \/ \E c \in MemoryResults(kind) :
             /\ rc' = "zero"
             /\ raw' = PyValue(kind, c)
             /\ pc' = "gateway_return"
             /\ NoRaise
    /\ UNCHANGED <<aside, config, invoked, files, ch, pad_head, out>>

\* ------------------------------------------------- back in the dispatcher
\* snack_raw_pitch unpacks the transport's value into F0_raw, V_raw;
\* snack_raw_formants passes it on as it is
GatewayReturn ==
    /\ pc = "gateway_return"
    /\ IF kind = "pitch" /\ raw.tag = "None"
       THEN Raise("TypeError")
       ELSE /\ pc' = "align"
            /\ NoRaise
    /\ UNCHANGED <<aside, config, calls, files, raw, ch, pad_head, out>>

\* ------------------------------------------------------------- alignment
\* snack_pitch: pad F0_raw and V_raw with NaN
AlignPitch ==
    /\ pc = "align"
    /\ kind = "pitch"
    /\ LET head == HeadLen(window_size, frame_shift)
           tailF0 == PadTailLen(data_len, Len(raw.F0), head)
           tailV == PadTailLen(data_len, Len(raw.V), head)
       IN IF raw.scalar
          THEN /\ Raise("TypeError")
               /\ pad_head' = NpFull(head, NaN)
               /\ out' = out
          ELSE IF NpFullRaises(tailF0) \/ NpFullRaises(tailV)
          THEN /\ Raise("ValueError")
               /\ pad_head' = NpFull(head, NaN)
               /\ out' = out
          ELSE /\ pad_head' = NpFull(head, NaN)
               /\ out' = PitchValue(Hstack(NpFull(head, NaN), raw.F0, NpFull(tailF0, NaN)),
                                    Hstack(NpFull(head, NaN), raw.V, NpFull(tailV, NaN)),
                                    FALSE)
               /\ pc' = "done"
               /\ NoRaise
    /\ UNCHANGED <<aside, config, calls, files, raw, ch>>

\* the raw vector the loop of snack_formants reads for channel n
ChannelRaw_first(e, n) == e[sformant_names[1]]
ChannelRaw(e, n) == e[n]

\* snack_formants: the dictionary is empty before the loop
AlignStart ==
    /\ pc = "align"
    /\ kind = "formants"
    /\ out' = FormantValue([n \in {} |-> <<>>])
    /\ ch' = 1
    /\ pc' = "align_loop"
    /\ UNCHANGED <<aside, config, calls, files, raw, pad_head, exc, raised_at>>

\* one turn of the loop over sformant_names
AlignChannel ==
    /\ pc = "align_loop"
    /\ ch <= Len(sformant_names)
    /\ LET n == sformant_names[ch]
           head == HeadLen(window_size, frame_shift)
       IN /\ pad_head' = NpFull(head, NaN)
          /\ IF raw.tag = "None"
             THEN /\ Raise("TypeError")
                  /\ UNCHANGED <<out, ch>>
             ELSE IF n \notin DOMAIN raw.est
             THEN /\ Raise("KeyError")
                  /\ UNCHANGED <<out, ch>>
             ELSE LET r == ChannelRaw(raw.est, n)
                      tail == PadTailLen(data_len, Len(r), head)
                  IN IF NpFullRaises(tail)
                     THEN /\ Raise("ValueError")
                          /\ UNCHANGED <<out, ch>>
                     ELSE /\ out' = FormantValue(
                                [m \in DOMAIN out.est \cup {n} |->
                                    IF m = n THEN Hstack(NpFull(head, NaN), r, NpFull(tail, NaN))
                                    ELSE out.est[m]])
                          /\ ch' = ch + 1
                          /\ pc' = pc
                          /\ NoRaise
    /\ UNCHANGED <<aside, config, calls, files, raw>>

\* return estimates
AlignReturn ==
    /\ pc = "align_loop"
    /\ ch > Len(sformant_names)
    /\ pc' = "done"
    /\ UNCHANGED <<aside, config, calls, files, raw, ch, pad_head, out, exc, raised_at>>

\* ------------------------------------------------------------ properties
\* floor(window_size / frame_shift / 2), characterised by its two bounds
SpecHeadLen ==
    CHOOSE k \in 0..window_size :
        /\ 2 * k * frame_shift <= window_size
        /\ window_size < 2 * (k + 1) * frame_shift

\* head ++ raw ++ tail of total length n, position by position
SpecAlign(r, n) ==
    [i \in 1..n |-> IF i > SpecHeadLen /\ i <= SpecHeadLen + Len(r)
                    THEN r[i - SpecHeadLen] ELSE NaN]

\* the request has ended and the alignment step has worked on the value of
\* the gateway
AlignActed ==
    /\ pc = "done"
    /\ raised_at \in {"none", "align", "align_loop"}

\* the gateway handed raw sequences to the alignment step: two vectors for
\* pitch, one vector per channel for formants
RawPitch == kind = "pitch" /\ AlignActed /\ raw.tag = "pitch" /\ ~raw.scalar
RawFormants == kind = "formants" /\ AlignActed /\ raw.tag = "formants" /\ DOMAIN raw.est = NameSet

Fits(r) == SpecHeadLen + Len(r) <= data_len
RawFits ==
    \/ RawPitch /\ Fits(raw.F0) /\ Fits(raw.V)
    \/ RawFormants /\ \A n \in NameSet : Fits(raw.est[n])
RawOverruns ==
    \/ RawPitch /\ ~Fits(raw.F0)
    \/ RawFormants /\ \E n \in NameSet : ~Fits(raw.est[n])

\* C1: when head_len + len(raw) <= data_len (equality included) the
\* alignment raises nothing and every aligned sequence, F0 and V of
\* snack_pitch and each channel of snack_formants, has length data_len.
C1_LengthIsDataLen ==
    RawFits =>
        /\ exc = "none"
        /\ (kind = "pitch" =>
                /\ out.tag = "pitch"
                /\ Len(out.F0) = data_len
                /\ Len(out.V) = data_len)
        /\ (kind = "formants" =>
                /\ out.tag = "formants"
                /\ \A n \in NameSet : Len(out.est[n]) = data_len)

\* the equality case: a non-empty raw vector after a non-empty head fills
\* data_len exactly and the tail pad is empty
C1_Witness ==
    /\ RawPitch
    /\ exc = "none"
    /\ Len(raw.F0) > 0
    /\ SpecHeadLen > 0
    /\ SpecHeadLen + Len(raw.F0) = data_len
    /\ Len(out.F0) = data_len

\* C2: when head_len + len(raw) <= data_len the aligned output holds the
\* raw values unchanged and in order at positions head_len ..
\* head_len + len(raw) - 1 (counted from 0).
C2_RawPreserved ==
    RawFits =>
        /\ (kind = "pitch" =>
                /\ \A i \in 1..Len(raw.F0) : out.F0[SpecHeadLen + i] = raw.F0[i]
                /\ \A i \in 1..Len(raw.V) : out.V[SpecHeadLen + i] = raw.V[i])
        /\ (kind = "formants" =>
                \A n \in NameSet : \A i \in 1..Len(raw.est[n]) :
                    out.est[n][SpecHeadLen + i] = raw.est[n][i])

\* the worked example: frame_shift 1, window_size 25, raw 100 105 110 and
\* data_len 20 give 12 NaN, the three values, 5 NaN
C2_Witness ==
    /\ RawPitch
    /\ frame_shift = 1
    /\ window_size = 25
    /\ data_len = 20
    /\ raw.F0 = <<Num(100), Num(105), Num(110)>>
    /\ out.F0 = [i \in 1..12 |-> NaN] \o <<Num(100), Num(105), Num(110)>> \o [i \in 1..5 |-> NaN]

\* C3: in every aligned sequence every element outside
\* [head_len, head_len + len(raw)) is NaN.
C3_PadsAreNaN ==
    RawFits =>
        /\ (kind = "pitch" =>
                /\ \A i \in 1..Len(out.F0) :
                      (i <= SpecHeadLen \/ i > SpecHeadLen + Len(raw.F0)) => out.F0[i] = NaN
                /\ \A i \in 1..Len(out.V) :
                      (i <= SpecHeadLen \/ i > SpecHeadLen + Len(raw.V)) => out.V[i] = NaN)
        /\ (kind = "formants" =>
                \A n \in NameSet : \A i \in 1..Len(out.est[n]) :
                    (i <= SpecHeadLen \/ i > SpecHeadLen + Len(raw.est[n])) => out.est[n][i] = NaN)

\* a formant channel with a head pad, raw values and a tail pad
C3_Witness ==
    /\ RawFormants
    /\ exc = "none"
    /\ SpecHeadLen > 0
    /\ Len(raw.est["sB4"]) > 0
    /\ SpecHeadLen + Len(raw.est["sB4"]) < data_len
    /\ out.est["sB4"][1] = NaN
    /\ out.est["sB4"][data_len] = NaN

C5_ChannelsIndependent ==
    (pc = "done" /\ kind = "formants" /\ exc = "none") =>
        \A n \in NameSet : out.est[n] = SpecAlign(raw.est[n], data_len)

\* a returned formant map whose channels hold different raw values
C5_Witness ==
    /\ pc = "done"
    /\ kind = "formants"
    /\ exc = "none"
    /\ method = "python"
    /\ Len(raw.est["sF1"]) = MaxFrames
    /\ raw.est["sF1"] # raw.est["sF2"]
    /\ out.est["sF2"] = SpecAlign(raw.est["sF2"], data_len)

\* C6: whenever snack_formants returns, under any transport, the mapping
\* has exactly the keys sF1 .. sB4 and each value has length data_len.
C6_EightKeys ==
    (pc = "done" /\ kind = "formants" /\ exc = "none") =>
        /\ out.tag = "formants"
        /\ DOMAIN out.est = NameSet
        /\ Cardinality(DOMAIN out.est) = 8
        /\ \A n \in NameSet : Len(out.est[n]) = data_len

\* snack_formants returned through the exe transport
C6_Witness ==
    /\ pc = "done"
    /\ kind = "formants"
    /\ exc = "none"
    /\ method = "exe"
    /\ DOMAIN out.est = NameSet
    /\ Len(out.est["sF1"]) = data_len

\* C7 as stated: when head_len + len(raw) > data_len the alignment raises
\* nothing and returns head ++ raw, longer than data_len.
C7_OverrunReturnsHeadRaw ==
    RawOverruns =>
        /\ exc = "none"
        /\ (kind = "pitch" =>
                /\ out.F0 = [i \in 1..SpecHeadLen |-> NaN] \o raw.F0
                /\ Len(out.F0) > data_len)

\* C7 amended: when head_len + len(raw) > data_len the tail pad length is
\* negative and not clamped, np.full refuses it, and the alignment step
\* ends in a ValueError without returning a sequence.
C7_OverrunRaises ==
    RawOverruns =>
        /\ exc = "ValueError"
        /\ raised_at \in {"align", "align_loop"}
        /\ (kind = "pitch" => out = Unset)
        /\ (kind = "formants" => DOMAIN out.est = {})

\* a raw pitch vector that overruns data_len
C7_Witness ==
    /\ RawPitch
    /\ Len(raw.F0) > 0
    /\ SpecHeadLen + Len(raw.F0) > data_len
    /\ exc = "ValueError"
    /\ raised_at = "align"

\* C8: on every failure path of the tcl transport neither the script file
\* nor the result file exists when the error reaches the caller.
C8_FailureLeavesNoFile ==
    (pc = "done" /\ method = "tcl" /\ raised_at \in {"tcl_call", "tcl_load"}) =>
        /\ ~IsFile(files, TclFile(kind))
        /\ ~IsFile(files, ResultFile(kind))

\* C9: after a successful return of the exe or tcl transport the result
\* file has been deleted, and so has the script of the tcl transport: no
\* artifact is left.
C9_SuccessLeavesNoFile ==
    (/\ method \in {"exe", "tcl"}
     /\ pc \in {"gateway_return", "align", "align_loop", "done"}
     /\ raw.tag # "unset") =>
        \A f \in FileNames : ~IsFile(files, f)

\* the tcl transport has just returned raw pitch vectors
C9_Witness ==
    /\ method = "tcl"
    /\ kind = "pitch"
    /\ pc = "gateway_return"
    /\ Len(raw.F0) > 0
    /\ ~IsFile(files, TclFile(kind))
    /\ ~IsFile(files, ResultFile(kind))

\* C10: when the toolkit cannot be located or loaded, every gateway
\* operation ends in an error raised to the caller and never returns a
\* value in place of the raw sequences.
C10_UnavailableRaises ==
    (toolkit # "ok") =>
        /\ pc \notin {"align", "align_loop"}
        /\ (pc = "done" => exc # "none")

\* the positions inside the gateway (snack_raw_pitch / snack_raw_formants
\* and the transports)
GatewayPositions ==
    {"dispatch", "exe_check", "exe_call", "exe_load", "py_import", "py_require",
     "py_collect", "tcl_write", "tcl_call", "tcl_load", "tcl_cleanup", "gateway_return"}

C12_MissingOutputRaises ==
    [][(/\ pc \in {"exe_load", "tcl_load"}
        /\ rc = "zero"
        /\ ~files[ResultFile(kind)].exists)
       => (/\ pc' = "done"
           /\ exc' = "OSError"
           /\ raw' = Unset
           /\ out' = Unset)]_vars

\* the tcl script ended with code 0 without a .frm file
C12_Witness ==
    /\ pc = "done"
    /\ method = "tcl"
    /\ kind = "formants"
    /\ rc = "zero"
    /\ raised_at = "tcl_load"
    /\ exc = "OSError"
    /\ ~files[ResultFile(kind)].exists
    /\ raw = Unset

\* C13: a method other than 'exe', 'python', 'tcl' ends in ValueError in
\* the dispatcher, before any transport: no file is written and nothing is
\* run.
C13_InvalidMethodRaises ==
    (method \notin {"exe", "python", "tcl"}) =>
        /\ pc \in {"dispatch", "done"}
        /\ (pc = "done" => exc = "ValueError" /\ raised_at = "dispatch")
        /\ \A f \in FileNames : ~files[f].exists
        /\ rc = "none"
        /\ invoked = 0
        /\ raw = Unset
        /\ out = Unset

\* the request with an unknown method has failed
C13_Witness ==
    /\ method = "other"
    /\ pc = "done"
    /\ exc = "ValueError"
    /\ raised_at = "dispatch"
    /\ invoked = 0

\* C14: 'exe' on a platform that is neither win32 nor cygwin ends in
\* ValueError at the platform test, for pitch and formants, before snack.exe
\* is run and before any result file is looked up.
C14_ExeNeedsWindows ==
    (method = "exe" /\ platform \notin {"win32", "cygwin"}) =>
        /\ pc \in {"dispatch", "exe_check", "done"}
        /\ (pc = "done" => exc = "ValueError" /\ raised_at = "exe_check")
        /\ rc = "none"
        /\ invoked = 0
        /\ \A f \in FileNames : ~files[f].exists
        /\ raw = Unset

\* a formant request with 'exe' on linux has failed
C14_Witness ==
    /\ method = "exe"
    /\ platform = "linux"
    /\ kind = "formants"
    /\ pc = "done"
    /\ exc = "ValueError"
    /\ raised_at = "exe_check"
    /\ invoked = 0

\* the gateway has failed: an exception was raised inside it, or the
\* toolkit could not be started or loaded, or its run ended badly
GatewayFailed ==
    \/ raised_at \in GatewayPositions
    \/ rc \in {"nostart", "nonzero"}

\* C15: within one request the toolkit is invoked at most once; after a
\* gateway failure the alignment step never runs and the request ends in
\* failure.
C15_FailureIsTerminal ==
    /\ invoked <= 1
    /\ GatewayFailed =>
          /\ pc \notin {"align", "align_loop"}
          /\ pad_head = <<>>
          /\ (pc = "done" => exc # "none" /\ out = Unset)

FourColumns == method = "python" \/ files[ResultFile(kind)].cols = ExpectedCols(kind)

RequestIdle ==
    /\ kind = "pitch"
    /\ method = "tcl"
    /\ platform = "linux"
    /\ toolkit = "ok"
    /\ frame_shift = 1
    /\ window_size = 1
    /\ data_len = 0
    /\ pc = "idle"
    /\ files = [f \in FileNames |-> NoFile]
    /\ raw = Unset
    /\ ch = 1
    /\ pad_head = <<>>
    /\ out = Unset
    /\ exc = "none"
    /\ raised_at = "none"
    /\ rc = "none"
    /\ invoked = 0
request == <<config, calls, pc, files, raw, ch, pad_head, out, exc, raised_at>>

\* the raw F0 vector of n frames the two calls share
UnitRaw(n) == [i \in 1..n |-> Num(100 + 5 * (i - 1))]

\* snack_pitch on doubles ws and fs: head pad, tail pad, aligned F0
SnackPitchF0(ws, fs, rawF0, dl) ==
    LET head == HeadLenOfFloats(ws, fs)
        tail == PadTailLen(dl, Len(rawF0), head)
    IN IF NpFullRaises(tail)
       THEN [head |-> head, F0 |-> <<>>, exc |-> "ValueError"]
       ELSE [head |-> head,
             F0 |-> Hstack(NpFull(head, NaN), rawF0, NpFull(tail, NaN)),
             exc |-> "none"]

InitUnits ==
    /\ RequestIdle
    /\ ConcIdle
    /\ u_pc = "start"
    /\ u_ws \in 1..MaxUnitWin
    /\ u_fs \in 1..MaxUnitShift
    /\ u_fs <= u_ws
    /\ u_len \in 0..MaxFrames
    /\ u_dl \in DataLens
    /\ u_ms = NoCall
    /\ u_sec = NoCall

\* snack_pitch(..., frame_shift=u_fs, window_size=u_ws), milliseconds
CallMillis ==
    /\ u_pc = "start"
    /\ u_ms' = SnackPitchF0(Millis(u_ws), Millis(u_fs), UnitRaw(u_len), u_dl)
    /\ u_pc' = "ms_done"
    /\ UNCHANGED <<request, conc, u_ws, u_fs, u_len, u_dl, u_sec>>

\* snack_pitch(..., frame_shift=u_fs/1000, window_size=u_ws/1000), seconds
CallSeconds ==
    /\ u_pc = "ms_done"
    /\ u_sec' = SnackPitchF0(Seconds(u_ws), Seconds(u_fs), UnitRaw(u_len), u_dl)
    /\ u_pc' = "both_done"
    /\ UNCHANGED <<request, conc, u_ws, u_fs, u_len, u_dl, u_ms>>

NextUnits ==
    \/ CallMillis
    \/ CallSeconds

SpecUnits == InitUnits /\ [][NextUnits]_vars

\* C17: the call with second arguments gives the same head pad length and
\* the same aligned output as the call with the same durations in
\* milliseconds.
C17_UnitInvariant ==
    u_pc = "both_done" => u_sec = u_ms

\* ---------------------------------------- two concurrent tcl invocations
\* snack_raw_pitch_tcl / snack_raw_formants_tcl called by two threads or
\* processes on the same input file, with a toolkit that works: each system
\* call on the shared directory is one step.
InitConc ==
    /\ RequestIdle
    /\ UnitsIdle
    /\ c_kind \in [Procs -> Kinds]
    /\ c_pc = [p \in Procs |-> "open"]
    /\ c_files = [f \in FileNames |-> Absent]
    /\ c_run = [p \in Procs |-> "none"]
    /\ c_rc = [p \in Procs |-> 0]
    /\ c_raw = [p \in Procs |-> Absent]
    /\ c_exc = [p \in Procs |-> "none"]

\* os.remove(f)
CRemove_noop(fs, f) == fs
CRemove(fs, f) == [fs EXCEPT ![f] = Absent]

\* invocation p goes to position l
Goto(p, l) == c_pc' = [c_pc EXCEPT ![p] = l]
\* invocation p raises e
CRaise(p, e) ==
    /\ c_exc' = [c_exc EXCEPT ![p] = e]
    /\ Goto(p, "done")

\* f = open(tcl_file, 'w'): the script file exists and is empty
COpen(p) ==
    /\ c_pc[p] = "open"
    /\ c_files' = WriteFile(c_files, TclFile(c_kind[p]), Truncated(p))
    /\ Goto(p, "write")
    /\ UNCHANGED <<request, units, c_kind, c_run, c_rc, c_raw, c_exc>>

\* f.write(script); f.close(): the text reaches the file that was opened;
\* when its name has been removed meanwhile the name stays missing
CWrite(p) ==
    /\ c_pc[p] = "write"
    /\ LET f == TclFile(c_kind[p])
       IN c_files' = IF IsFile(c_files, f)
                     THEN WriteFile(c_files, f, Script(c_kind[p], p))
                     ELSE c_files
    /\ Goto(p, "call")
    /\ UNCHANGED <<request, units, c_kind, c_run, c_rc, c_raw, c_exc>>

\* call([tcl_shell_cmd, tcl_file]): the shell reads the file of that name.
\* A missing file ends the shell with an error code, an empty file with
\* code 0 and nothing done, a script is run.
CStart(p) ==
    /\ c_pc[p] = "call"
    /\ LET s == c_files[TclFile(c_kind[p])]
       IN IF ~s.exists
          THEN /\ c_rc' = [c_rc EXCEPT ![p] = 1]
               /\ Goto(p, "rc_test")
               /\ UNCHANGED c_run
          ELSE IF s.text = "script"
          THEN /\ c_run' = [c_run EXCEPT ![p] = s.kind]
               /\ Goto(p, "run_open")
               /\ UNCHANGED c_rc
          ELSE /\ c_rc' = [c_rc EXCEPT ![p] = 0]
               /\ Goto(p, "rc_test")
               /\ UNCHANGED c_run
    /\ UNCHANGED <<request, units, c_kind, c_files, c_raw, c_exc>>

\* the script: set fd [open [file rootname in_file].f0 w]  (or .frm)
CRunOpen(p) ==
    /\ c_pc[p] = "run_open"
    /\ c_files' = WriteFile(c_files, ResultFile(c_run[p]), Truncated(p))
    /\ Goto(p, "run_puts")
    /\ UNCHANGED <<request, units, c_kind, c_run, c_rc, c_raw, c_exc>>

\* the script: puts $fd [join [s pitch ...]]; close $fd; exit
CRunPuts(p) ==
    /\ c_pc[p] = "run_puts"
    /\ LET f == ResultFile(c_run[p])
       IN c_files' = IF IsFile(c_files, f)
                     THEN WriteFile(c_files, f, Frames(c_run[p], p))
                     ELSE c_files
    /\ c_rc' = [c_rc EXCEPT ![p] = 0]
    /\ Goto(p, "rc_test")
    /\ UNCHANGED <<request, units, c_kind, c_run, c_raw, c_exc>>

\* if return_code != 0: os.remove(tcl_file); raise OSError.  os.remove of
\* a missing file raises FileNotFoundError, an OSError as well.
CRcTest(p) ==
    /\ c_pc[p] = "rc_test"
    /\ IF ReturnCodeFails(c_rc[p])
       THEN /\ c_files' = CRemove(c_files, TclFile(c_kind[p]))
            /\ CRaise(p, "OSError")
       ELSE /\ Goto(p, "isfile")
            /\ UNCHANGED <<c_files, c_exc>>
    /\ UNCHANGED <<request, units, c_kind, c_run, c_rc, c_raw>>

\* if os.path.isfile(f0_file) ... else raise OSError
CIsFile(p) ==
    /\ c_pc[p] = "isfile"
    /\ IF IsFile(c_files, ResultFile(c_kind[p]))
       THEN /\ Goto(p, "load")
            /\ UNCHANGED c_exc
       ELSE CRaise(p, "OSError")
    /\ UNCHANGED <<request, units, c_kind, c_files, c_run, c_rc, c_raw>>

\* np.loadtxt(f0_file).reshape((-1, 4)): the frames that are in the file
\* now, none when it is still empty; a file removed since the test cannot
\* be opened
CLoad(p) ==
    /\ c_pc[p] = "load"
    /\ IF IsFile(c_files, ResultFile(c_kind[p]))
       THEN /\ c_raw' = [c_raw EXCEPT ![p] = c_files[ResultFile(c_kind[p])]]
            /\ Goto(p, "rm_result")
            /\ UNCHANGED c_exc
       ELSE /\ CRaise(p, "OSError")
            /\ UNCHANGED c_raw
    /\ UNCHANGED <<request, units, c_kind, c_files, c_run, c_rc>>

\* os.remove(f0_file)
CRmResult(p) ==
    /\ c_pc[p] = "rm_result"
    /\ IF IsFile(c_files, ResultFile(c_kind[p]))
       THEN /\ c_files' = CRemove(c_files, ResultFile(c_kind[p]))
            /\ Goto(p, "rm_script")
            /\ UNCHANGED c_exc
       ELSE /\ CRaise(p, "OSError")
            /\ UNCHANGED c_files
    /\ UNCHANGED <<request, units, c_kind, c_run, c_rc, c_raw>>

\* os.remove(tcl_file); return
CRmScript(p) ==
    /\ c_pc[p] = "rm_script"
    /\ IF IsFile(c_files, TclFile(c_kind[p]))
       THEN /\ c_files' = CRemove(c_files, TclFile(c_kind[p]))
            /\ Goto(p, "done")
            /\ UNCHANGED c_exc
       ELSE /\ CRaise(p, "OSError")
            /\ UNCHANGED c_files
    /\ UNCHANGED <<request, units, c_kind, c_run, c_rc, c_raw>>

NextConc ==
    \E p \in Procs :
        \/ COpen(p)
        \/ CWrite(p)
        \/ CStart(p)
        \/ CRunOpen(p)
        \/ CRunPuts(p)
        \/ CRcTest(p)
        \/ CIsFile(p)
        \/ CLoad(p)
        \/ CRmResult(p)
        \/ CRmScript(p)

SpecConc == InitConc /\ [][NextConc]_vars

\* the files an invocation of kind k works on
OwnFiles(k) == {TclFile(k), ResultFile(k)}
SameKind == c_kind[1] = c_kind[2]
\* invocation p has returned the frames its own script wrote
ReturnedOwn(p) ==
    /\ c_pc[p] = "done"
    /\ c_exc[p] = "none"
    /\ c_raw[p] = Frames(c_kind[p], p)

\* C16: two tcl invocations of the same kind work on the same script path
\* and the same result path.  Each of them, run while the other has not
\* begun, returns its own frames and leaves no file; once both run, the
\* ways one of them ends are: with its own frames, with frames or an empty
\* file the other one wrote, or with an OSError on a file that is missing.
C16_SameKindUnsafe ==
    /\ SameKind => OwnFiles(c_kind[1]) = OwnFiles(c_kind[2])
    /\ \A p \in Procs :
          (c_pc[p] = "done" /\ c_pc[Other(p)] = "open") =>
              /\ ReturnedOwn(p)
              /\ \A f \in FileNames : c_files[f] = Absent
    /\ \A p \in Procs :
          (SameKind /\ c_pc[p] = "done") =>
              \/ ReturnedOwn(p)
              \/ c_exc[p] = "none" /\ c_raw[p].exists /\ c_raw[p].by = Other(p)
              \/ c_exc[p] = "OSError"

\* the interleaving of the claim: invocation 2 has returned frames that the
\* script of invocation 1 wrote and has removed the result file, and
\* invocation 1, whose own run ended with code 0, has failed on the missing
\* result file
C16_Witness ==
    /\ SameKind
    /\ c_pc = [p \in Procs |-> "done"]
    /\ c_exc[1] = "OSError"
    /\ c_rc[1] = 0
    /\ c_run[1] = c_kind[1]
    /\ c_exc[2] = "none"
    /\ c_raw[2] = Frames(c_kind[2], 1)

Next ==
    \/ Dispatch
    \/ ExeCheck
    \/ ExeCall
    \/ ExeLoad
    \/ PyImport
    \/ PyRequire
    \/ PyCollect
    \/ TclWrite
    \/ TclCall
    \/ TclLoad
    \/ TclCleanup
    \/ GatewayReturn
    \/ AlignPitch
    \/ AlignStart
    \/ AlignChannel
    \/ AlignReturn

Spec == Init /\ [][Next]_vars
====
